---- MODULE Spec2Model ----
(***************************************************************************)
(* A model of otp-service-client-go: the domain client (OtpClient and its  *)
(* six operations) on top of the generic transport helpers of package      *)
(* http_client.  A call is followed from the construction of its request   *)
(* descriptor, through prepareRequest, the transport function (request     *)
(* construction, http.DefaultClient.Do, io.ReadAll, the two JSON decodes)  *)
(* and handleResponse, to the value and error it returns.                  *)
(*                                                                         *)
(* The network and the remote service are the environment: Do either fails *)
(* or delivers a status code and a body, and reading the body either fails *)
(* or yields its bytes.  A body is kept as the JSON document it spells.    *)
(***************************************************************************)
EXTENDS Integers, Sequences, FiniteSets, TLC

(***************************************************************************)
(* Bounds of the model.                                                    *)
(***************************************************************************)
NumCallers == 2
MaxUserId == 1

Callers == 1..NumCallers
SeqCallers == {1}

(***************************************************************************)
(* Program constants.                                                      *)
(***************************************************************************)
StatusNoContent == 204
StatusBadRequest == 400
StatusNotFound == 404
StatusConflict == 409
MinSuccess == 200
MaxSuccess == 299
NilMap == 0

UserAgent == "otp-service-client-go"

(***************************************************************************)
(* JSON documents.  A body is empty, not JSON at all, the literal null, a  *)
(* well-formed value that is no object (an array), or an object: a         *)
(* function from its keys to typed values.  Numbers and booleans are kept  *)
(* as their JSON text.                                                     *)
(***************************************************************************)
Str(s) == [t |-> "string", v |-> s]
Num(s) == [t |-> "number", v |-> s]
Bool(s) == [t |-> "bool", v |-> s]

EmptyDoc == [kind |-> "empty"]
MalformedDoc == [kind |-> "malformed"]
NullDoc == [kind |-> "null"]
ArrayDoc == [kind |-> "array"]
Obj(f) == [kind |-> "object", fields |-> f]

EmptyMap == << >>
Put(m, k, v) == (k :> v) @@ m

\* fmt.Sprintf("%d", n)
Digit(d) == SubSeq("0123456789", d + 1, d + 1)

RECURSIVE ItoaNat(_)
ItoaNat(n) == IF n < 10 THEN Digit(n) ELSE ItoaNat(n \div 10) \o Digit(n % 10)

Itoa(n) == IF n < 0 THEN "-" \o ItoaNat(0 - n) ELSE ItoaNat(n)

(***************************************************************************)
(* Errors.  The four domain errors of client/errors.go, and the errors of  *)
(* the standard library that the transport functions pass on unchanged.    *)
(***************************************************************************)
NilErr == [kind |-> "nil"]
NotFoundError == [kind |-> "NotFoundError"]
BadRequestError(p) == [kind |-> "BadRequestError", Problem |-> p]
ConflictError(p) == [kind |-> "ConflictError", Problem |-> p]
UnknownError(p) == [kind |-> "UnknownError", Problem |-> p]

ErrorString(e) ==
    CASE e.kind = "NotFoundError" -> "not found"
      [] e.kind = "BadRequestError" -> "bad request: " \o e.Problem
      [] e.kind = "ConflictError" -> "conflict: " \o e.Problem
      [] e.kind = "UnknownError" -> "unknown error: " \o e.Problem

MarshalError == [kind |-> "json.MarshalError"]
UrlError == [kind |-> "url.Error"]
NetError == [kind |-> "net.Error"]
ReadError == [kind |-> "io.ReadError"]
JsonSyntaxError == [kind |-> "json.SyntaxError"]
JsonTypeError == [kind |-> "json.UnmarshalTypeError"]

(***************************************************************************)
(* The declared types and json.Unmarshal into them.  A key that is absent  *)
(* or null leaves the field at its zero value, an unknown key is ignored,  *)
(* and a value of another JSON type is an UnmarshalTypeError.              *)
(***************************************************************************)
NoValue == [kind |-> "none"]

StrField(f, k) == IF k \in DOMAIN f /\ f[k].t = "string" THEN f[k].v ELSE ""
BoolField(f, k) == IF k \in DOMAIN f /\ f[k].t = "bool" THEN f[k].v = "true" ELSE FALSE
FieldFits(f, k, t) == k \in DOMAIN f => f[k].t \in {t, "null"}

\* variant: the payload's description read from another key
ErrorBodyWrongKey(f) == [Problem |-> StrField(f, "message")]

ErrorBody(f) == [Problem |-> StrField(f, "problem")]

GetUserOtpResponse(f) ==
    [Verified |-> BoolField(f, "verified"),
     Enabled |-> BoolField(f, "enabled"),
     Secret |-> StrField(f, "secret"),
     AuthUrl |-> StrField(f, "auth_url")]

CreateUserOtpResponse(f) ==
    [Secret |-> StrField(f, "secret"),
     AuthUrl |-> StrField(f, "auth_url")]

Decoded(T, f) ==
    CASE T = "ErrorBody" -> ErrorBody(f)
      [] T = "GetUserOtpResponse" -> GetUserOtpResponse(f)
      [] T = "CreateUserOtpResponse" -> CreateUserOtpResponse(f)
      [] OTHER -> NoValue

Fits(T, f) ==
    CASE T = "ErrorBody" -> FieldFits(f, "problem", "string")
      [] T = "GetUserOtpResponse" ->
            /\ FieldFits(f, "verified", "bool")
            /\ FieldFits(f, "enabled", "bool")
            /\ FieldFits(f, "secret", "string")
            /\ FieldFits(f, "auth_url", "string")
      [] T = "CreateUserOtpResponse" ->
            /\ FieldFits(f, "secret", "string")
            /\ FieldFits(f, "auth_url", "string")
      [] OTHER -> TRUE

Zero(T) == Decoded(T, EmptyMap)

parseJson(T, s) ==
    CASE s.kind \in {"empty", "malformed"} -> [body |-> Zero(T), err |-> JsonSyntaxError]
      [] s.kind = "null" -> [body |-> Zero(T), err |-> NilErr]
      [] s.kind = "array" -> [body |-> Zero(T), err |-> JsonTypeError]
      [] s.kind = "object" ->
            [body |-> Decoded(T, s.fields),
             err |-> IF Fits(T, s.fields) THEN NilErr ELSE JsonTypeError]

\* json.Marshal of a request body
jsonMarshal(b) ==
    CASE b.kind \in {"VerifyOtpRequest", "ValidateOtpRequest"} ->
            [data |-> Obj(("user_id" :> Num(Itoa(b.UserId))) @@ ("token" :> Str(b.Token))),
             err |-> NilErr]
      [] OTHER -> [data |-> EmptyDoc, err |-> MarshalError]

VARIABLES oc, pc, call, req, heap, wire, net, stream, tr, result

vars == <<oc, pc, call, req, heap, wire, net, stream, tr, result>>


(***************************************************************************)
(* The domain client: OtpClient, the request descriptor each operation     *)
(* builds, and the mapping of a transport response to a domain error.      *)
(***************************************************************************)
NewOtpClient(baseUrl, secret) == [BaseUrl |-> baseUrl, Secret |-> secret]

Ops == {"GetUserOtp", "CreateUserOtp", "DisableUserOtp", "DeleteUserOtp", "VerifyOtp", "ValidateOtp"}
TokenOps == {"VerifyOtp", "ValidateOtp"}

HttpRequest(url) ==
    [Url |-> url, QueryParameters |-> EmptyMap, Headers |-> NilMap, Body |-> NoValue]

HttpRequestWithBody(url, body) == [HttpRequest(url) EXCEPT !.Body = body]

GetUserOtp(ocv, userId) == HttpRequest(ocv.BaseUrl \o "/users/" \o Itoa(userId) \o "/otp")
CreateUserOtp(ocv, userId) == HttpRequest(ocv.BaseUrl \o "/users/" \o Itoa(userId) \o "/otp")
DisableUserOtp(ocv, userId) == HttpRequest(ocv.BaseUrl \o "/users/" \o Itoa(userId) \o "/otp/disable")
DeleteUserOtp(ocv, userId) == HttpRequest(ocv.BaseUrl \o "/users/" \o Itoa(userId) \o "/otp")

VerifyOtp(ocv, userId, token) ==
    HttpRequestWithBody(ocv.BaseUrl \o "/otp/verify",
                        [kind |-> "VerifyOtpRequest", UserId |-> userId, Token |-> token])

ValidateOtp(ocv, userId, token) ==
    HttpRequestWithBody(ocv.BaseUrl \o "/otp/validate",
                        [kind |-> "ValidateOtpRequest", UserId |-> userId, Token |-> token])

OperationRequest(ocv, op, userId, token) ==
    CASE op = "GetUserOtp" -> GetUserOtp(ocv, userId)
      [] op = "CreateUserOtp" -> CreateUserOtp(ocv, userId)
      [] op = "DisableUserOtp" -> DisableUserOtp(ocv, userId)
      [] op = "DeleteUserOtp" -> DeleteUserOtp(ocv, userId)
      [] op = "VerifyOtp" -> VerifyOtp(ocv, userId, token)
      [] op = "ValidateOtp" -> ValidateOtp(ocv, userId, token)

\* the transport function each operation's wrapper calls
TransportOf(op) ==
    CASE op = "GetUserOtp" -> "Get"
      [] op = "CreateUserOtp" -> "Post"
      [] op = "DisableUserOtp" -> "PostWithNoContent"
      [] op = "DeleteUserOtp" -> "DeleteWithNoContent"
      [] op \in TokenOps -> "PostWithBodyWithNoContent"
      [] OTHER -> op

\* the type parameter the response body is decoded into
ResponseType(op) ==
    CASE op = "GetUserOtp" -> "GetUserOtpResponse"
      [] op = "CreateUserOtp" -> "CreateUserOtpResponse"
      [] op = "PostWithBody" -> "CreateUserOtpResponse"
      [] OTHER -> "none"

\* variant: one package-level map handed to every request
NewMapIdShared(h) == 1

\* make(map[string]string): a map no other request refers to
NewMapId(h) == CHOOSE i \in 1..(Cardinality(DOMAIN h) + 1) :
                   i \notin DOMAIN h /\ \A j \in 1..(i - 1) : j \in DOMAIN h

AddHeader(h, r, key, value) ==
    LET id == IF r.Headers = NilMap THEN NewMapId(h) ELSE r.Headers
        m == IF r.Headers = NilMap \/ id \notin DOMAIN h THEN EmptyMap ELSE h[id]
    IN  [req |-> [r EXCEPT !.Headers = id],
         heap |-> Put(h, id, Put(m, key, value))]

\* variant: the header is set on a copy that is thrown away
prepareRequestOnCopy(h, ocv, request) == [req |-> request, heap |-> h]

prepareRequest(h, ocv, request) == AddHeader(h, request, "X-Secret", ocv.Secret)

\* variant: 404 is not told apart; only the error flag is looked at
handleResponseFlagOnly(resp) ==
    IF resp.HasError
    THEN CASE resp.StatusCode = StatusBadRequest -> BadRequestError(resp.ErrorBody.Problem)
           [] resp.StatusCode = StatusConflict -> ConflictError(resp.ErrorBody.Problem)
           [] OTHER -> UnknownError(resp.ErrorBody.Problem)
    ELSE NilErr

handleResponse(resp) ==
    IF resp.StatusCode = StatusNotFound THEN NotFoundError
    ELSE IF resp.HasError
         THEN CASE resp.StatusCode = StatusBadRequest -> BadRequestError(resp.ErrorBody.Problem)
                [] resp.StatusCode = StatusConflict -> ConflictError(resp.ErrorBody.Problem)
                [] OTHER -> UnknownError(resp.ErrorBody.Problem)
         ELSE NilErr

handleResponseWithBody(T, resp) ==
    LET err == handleResponse(resp)
    IN  IF err # NilErr THEN [val |-> Zero(T), err |-> err]
        ELSE [val |-> resp.Body, err |-> NilErr]

\* getRequest, postRequest, postRequestWithNoContent,
\* postRequestWithBodyWithNoContent, deleteRequestWithNoContent, after the
\* transport function has returned t
wrapperReturn(op, t) ==
    IF t.err # NilErr THEN [val |-> Zero(ResponseType(op)), err |-> t.err]
    ELSE IF ResponseType(op) # "none" THEN handleResponseWithBody(ResponseType(op), t.response)
    ELSE [val |-> NoValue, err |-> handleResponse(t.response)]

(***************************************************************************)
(* The transport functions of package http_client.  The six functions are  *)
(* the same text but for the verb, the marshalled body, the Content-Type   *)
(* header and the statuses at which they return before the body decode.    *)
(***************************************************************************)
Transports == {"Get", "Post", "PostWithBody", "PostWithNoContent",
               "PostWithBodyWithNoContent", "DeleteWithNoContent"}

\* variant: the verb of the function DeleteWithNoContent was copied from
MethodCopiedFromPost(fn) == IF fn = "Get" THEN "GET" ELSE "POST"

Method(fn) ==
    CASE fn = "Get" -> "GET"
      [] fn = "DeleteWithNoContent" -> "DELETE"
      [] OTHER -> "POST"

MarshalsBody(fn) == fn \in {"PostWithBody", "PostWithBodyWithNoContent"}
HasTypedBody(fn) == fn \in {"Get", "Post", "PostWithBody"}

\* url.Parse inside http.NewRequest rejects a URL holding a control byte
CTLBytes == {"\n", "\r", "\t"}
urlParseFails(url) == \E i \in 1..Len(url) : SubSeq(url, i, i) \in CTLBytes

\* http.Header.Add and http.Header.Get
HeaderAdd(hd, k, v) ==
    IF k \in DOMAIN hd THEN [hd EXCEPT ![k] = Append(@, v)] ELSE Put(hd, k, <<v>>)
HeaderGet(hd, k) == IF k \in DOMAIN hd THEN hd[k][1] ELSE ""

\* from json.Marshal to the last req.Header.Add
newRequest(fn, request, h) ==
    LET m == IF MarshalsBody(fn) THEN jsonMarshal(request.Body)
             ELSE [data |-> EmptyDoc, err |-> NilErr]
        hdrs == IF request.Headers = NilMap \/ request.Headers \notin DOMAIN h
                THEN EmptyMap ELSE h[request.Headers]
        copied == [k \in DOMAIN hdrs |-> <<hdrs[k]>>]
        typed == IF fn = "PostWithBody"
                 THEN HeaderAdd(copied, "Content-Type", "application/json") ELSE copied
    IN  IF m.err # NilErr THEN [req |-> NoValue, err |-> m.err]
        ELSE IF urlParseFails(request.Url) THEN [req |-> NoValue, err |-> UrlError]
        ELSE [req |-> [Method |-> Method(fn),
                       Url |-> request.Url,
                       Query |-> request.QueryParameters,
                       Header |-> HeaderAdd(typed, "User-Agent", UserAgent),
                       Body |-> m.data],
              err |-> NilErr]

\* variant: the request is sent again when the first attempt is unanswered
DoWithRetry(sent, r) == Append(Append(sent, r), r)

\* http.DefaultClient.Do: the request goes out on the network
Do(sent, r) == Append(sent, r)

ZeroResponse(fn, T) ==
    [StatusCode |-> 0, HasError |-> FALSE, ErrorBody |-> Zero("ErrorBody"),
     Body |-> IF HasTypedBody(fn) THEN Zero(T) ELSE NoValue]

\* variant: only statuses above the success range count as errors
IsErrorStatusAbove(status) == status > MaxSuccess /\ status # StatusNotFound

IsErrorStatus(status) ==
    (status < MinSuccess \/ status > MaxSuccess) /\ status # StatusNotFound

\* variant: Get returns at 204 as Post does
ReturnsBeforeDecodeAt204(fn, status) ==
    CASE fn \in {"Get", "Post", "PostWithBody"} ->
            status = StatusNoContent \/ status = StatusNotFound
      [] OTHER -> TRUE

\* the statuses at which the function returns without decoding the body
\* into the declared type
ReturnsBeforeDecode(fn, status) ==
    CASE fn = "Get" -> status = StatusNotFound
      [] fn \in {"Post", "PostWithBody"} -> status = StatusNoContent \/ status = StatusNotFound
      [] OTHER -> TRUE

\* variant: the close is deferred only after the read error is checked
closeAfterErrCheck(readErr) == ~readErr

\* defer resp.Body.Close(), registered right after io.ReadAll
deferredClose(readErr) == TRUE

\* from the response of Do to the return of the transport function
readResponse(fn, T, o) ==
    LET response == [ZeroResponse(fn, T) EXCEPT !.StatusCode = o.status]
        errorJson == parseJson("ErrorBody", o.body)
        flagged == IF IsErrorStatus(o.status)
                   THEN [response EXCEPT !.ErrorBody = errorJson.body, !.HasError = TRUE]
                   ELSE response
        jsonBody == parseJson(T, o.body)
    IN  IF o.readErr THEN [response |-> response, err |-> ReadError]
        ELSE IF IsErrorStatus(o.status) /\ errorJson.err # NilErr
             THEN [response |-> response, err |-> errorJson.err]
        ELSE IF ReturnsBeforeDecode(fn, o.status) THEN [response |-> flagged, err |-> NilErr]
        ELSE IF jsonBody.err # NilErr THEN [response |-> flagged, err |-> jsonBody.err]
        ELSE [response |-> [flagged EXCEPT !.Body = jsonBody.body], err |-> NilErr]


(***************************************************************************)
(* Inputs: the clients that are constructed, the arguments of the calls,   *)
(* and what the network and the remote service answer.                     *)
(***************************************************************************)
BaseUrls == {"http://otp.local", "http://otp.local\n"}
Secrets == {"s3cret", "hunter2"}
Clients == {NewOtpClient(b, s) : b \in BaseUrls, s \in Secrets}

UserIds == {-3, 42} \cup 1..MaxUserId
Tokens == {"123456", ""}

Statuses == {101, 200, 204, 299, 301, 400, 404, 409, 500}

Problems == {"x", ""}

ProblemFields == {EmptyMap, "problem" :> Num("7")} \cup {"problem" :> Str(p) : p \in Problems}
SecretFields == {EmptyMap, "secret" :> Str("JBSWY3DP"), "secret" :> Num("123")}
OtherFields ==
    {EmptyMap,
     ("auth_url" :> Str("otpauth://a")) @@ ("verified" :> Bool("true")) @@ ("enabled" :> Bool("false")),
     ("auth_url" :> Str("otpauth://b")) @@ ("verified" :> Bool("false")) @@ ("enabled" :> Bool("true"))}

Bodies ==
    {EmptyDoc, MalformedDoc, NullDoc, ArrayDoc}
        \cup {Obj(a @@ b @@ c) : a \in ProblemFields, b \in SecretFields, c \in OtherFields}

NetFailure == [kind |-> "error"]
Response(status, body, readErr) ==
    [kind |-> "response", status |-> status, body |-> body, readErr |-> readErr]

Outcomes ==
    {NetFailure}
        \cup {Response(st, b, FALSE) : st \in Statuses, b \in Bodies}
        \cup {Response(st, EmptyDoc, TRUE) : st \in Statuses}

\* requests handed to PostWithBody by a caller of the transport package
DirectRequests ==
    {HttpRequestWithBody(u, b) :
        u \in {"http://otp.local/otp", "http://otp.local\n/otp"},
        b \in {[kind |-> "VerifyOtpRequest", UserId |-> 42, Token |-> "123456"],
               [kind |-> "chan"]}}

\* the smaller inputs of the runs with several callers
ConcClient == NewOtpClient("http://otp.local", "s3cret")
ConcUserIds == {42}
ConcTokens == {"123456"}
ConcOutcomes ==
    {Response(StatusNoContent, EmptyDoc, FALSE),
     Response(StatusBadRequest, Obj("problem" :> Str("x")), FALSE)}

(***************************************************************************)
(* State.  oc is the shared client; everything else is per caller: the     *)
(* position of its call, the call's arguments, its request descriptor, the *)
(* requests it has put on the network, what the network answered, the      *)
(* response body stream, what the transport function returned and what the *)
(* operation returned.  heap holds the header maps, by reference, as Go    *)
(* maps are.                                                               *)
(***************************************************************************)
NoCall == [op |-> "none", userId |-> 0, token |-> ""]
NoNet == [kind |-> "none"]
NoStream == [read |-> "none", closed |-> FALSE]

TypeOK ==
    /\ oc \in Clients
    /\ pc \in [Callers -> {"idle", "prepare", "transport", "awaiting", "returned", "done"}]
    /\ \A c \in Callers :
          /\ Len(wire[c]) >= 0
          /\ pc[c] # "idle" => TransportOf(call[c].op) \in Transports

InitCalls ==
    /\ pc = [c \in Callers |-> "idle"]
    /\ call = [c \in Callers |-> NoCall]
    /\ req = [c \in Callers |-> NoValue]
    /\ heap = EmptyMap
    /\ wire = [c \in Callers |-> << >>]
    /\ net = [c \in Callers |-> NoNet]
    /\ stream = [c \in Callers |-> NoStream]
    /\ tr = [c \in Callers |-> NoValue]
    /\ result = [c \in Callers |-> NoValue]

Init == oc \in Clients /\ InitCalls

InitConc == oc = ConcClient /\ InitCalls

\* an operation is called and builds its request descriptor
Invoke(c, ids, tokens) ==
    /\ pc[c] = "idle"
    /\ \E op \in Ops, userId \in ids, token \in tokens :
          /\ op \notin TokenOps => token = CHOOSE t \in tokens : TRUE
          /\ call' = [call EXCEPT ![c] = [op |-> op, userId |-> userId,
                                          token |-> IF op \in TokenOps THEN token ELSE ""]]
          /\ req' = [req EXCEPT ![c] = OperationRequest(oc, op, userId, token)]
    /\ pc' = [pc EXCEPT ![c] = "prepare"]
    /\ UNCHANGED <<oc, heap, wire, net, stream, tr, result>>

\* PostWithBody, which no operation uses, is called with a request
InvokeTransport(c) ==
    /\ pc[c] = "idle"
    /\ \E r \in DirectRequests : req' = [req EXCEPT ![c] = r]
    /\ call' = [call EXCEPT ![c] = [op |-> "PostWithBody", userId |-> 0, token |-> ""]]
    /\ pc' = [pc EXCEPT ![c] = "transport"]
    /\ UNCHANGED <<oc, heap, wire, net, stream, tr, result>>

\* the wrapper's prepareRequest(oc, &request)
Prepare(c) ==
    /\ pc[c] = "prepare"
    /\ LET p == prepareRequest(heap, oc, req[c])
       IN  /\ req' = [req EXCEPT ![c] = p.req]
           /\ heap' = p.heap
    /\ pc' = [pc EXCEPT ![c] = "transport"]
    /\ UNCHANGED <<oc, call, wire, net, stream, tr, result>>

\* the transport function up to and including the call of Do
Send(c) ==
    /\ pc[c] = "transport"
    /\ LET fn == TransportOf(call[c].op)
           built == newRequest(fn, req[c], heap)
       IN  IF built.err # NilErr
           THEN /\ tr' = [tr EXCEPT ![c] =
                            [response |-> ZeroResponse(fn, ResponseType(call[c].op)),
                             err |-> built.err]]
                /\ pc' = [pc EXCEPT ![c] = "returned"]
                /\ wire' = wire
           ELSE /\ wire' = [wire EXCEPT ![c] = Do(@, built.req)]
                /\ pc' = [pc EXCEPT ![c] = "awaiting"]
                /\ tr' = tr
    /\ UNCHANGED <<oc, call, req, heap, net, stream, result>>

\* Do returns, and the transport function runs to its return
Receive(c, outcomes) ==
    /\ pc[c] = "awaiting"
    /\ \E o \in outcomes :
          LET fn == TransportOf(call[c].op)
              T == ResponseType(call[c].op)
          IN  /\ net' = [net EXCEPT ![c] = o]
              /\ IF o.kind = "error"
                 THEN /\ tr' = [tr EXCEPT ![c] = [response |-> ZeroResponse(fn, T),
                                                  err |-> NetError]]
                      /\ stream' = stream
                 ELSE /\ tr' = [tr EXCEPT ![c] = readResponse(fn, T, o)]
                      /\ stream' = [stream EXCEPT ![c] =
                                      [read |-> IF o.readErr THEN "failed" ELSE "eof",
                                       closed |-> deferredClose(o.readErr)]]
    /\ pc' = [pc EXCEPT ![c] = "returned"]
    /\ UNCHANGED <<oc, call, req, heap, wire, result>>

\* the wrapper maps what the transport function returned
Handle(c) ==
    /\ pc[c] = "returned"
    /\ call[c].op \in Ops
    /\ result' = [result EXCEPT ![c] = wrapperReturn(call[c].op, tr[c])]
    /\ pc' = [pc EXCEPT ![c] = "done"]
    /\ UNCHANGED <<oc, call, req, heap, wire, net, stream, tr>>

\* the call is over; its request and header map are garbage
Return(c) ==
    /\ \/ pc[c] = "done"
       \/ pc[c] = "returned" /\ call[c].op \notin Ops
    /\ pc' = [pc EXCEPT ![c] = "idle"]
    /\ call' = [call EXCEPT ![c] = NoCall]
    /\ req' = [req EXCEPT ![c] = NoValue]
    /\ heap' = [i \in DOMAIN heap \ {req[c].Headers} |-> heap[i]]
    /\ wire' = [wire EXCEPT ![c] = << >>]
    /\ net' = [net EXCEPT ![c] = NoNet]
    /\ stream' = [stream EXCEPT ![c] = NoStream]
    /\ tr' = [tr EXCEPT ![c] = NoValue]
    /\ result' = [result EXCEPT ![c] = NoValue]
    /\ UNCHANGED oc

\* one caller, every input
Next ==
    \E c \in SeqCallers :
        \/ Invoke(c, UserIds, Tokens)
        \/ InvokeTransport(c)
        \/ Prepare(c)
        \/ Send(c)
        \/ Receive(c, Outcomes)
        \/ Handle(c)
        \/ Return(c)

Spec == Init /\ [][Next]_vars

\* several callers sharing the client, in every interleaving
NextConc ==
    \E c \in Callers :
        \/ Invoke(c, ConcUserIds, ConcTokens)
        \/ Prepare(c)
        \/ Send(c)
        \/ Receive(c, ConcOutcomes)
        \/ Handle(c)
        \/ Return(c)

SpecConc == InitConc /\ [][NextConc]_vars


(***************************************************************************)
(* Properties.                                                             *)
(***************************************************************************)
Done(c) == pc[c] = "done" /\ call[c].op \in Ops
TransportReturned(c) == pc[c] \in {"returned", "done"}
GotBody(c) == net[c].kind = "response" /\ ~net[c].readErr
GotStatus(c, st) == GotBody(c) /\ net[c].status = st
ProblemOnly(b) ==
    b.kind = "object" /\ DOMAIN b.fields = {"problem"} /\ b.fields["problem"].t = "string"

\* C1: an operation that received status 404 and read the body returns
\* NotFound, whatever the body holds.
C1_NotFoundOn404 ==
    \A c \in Callers :
        Done(c) /\ GotStatus(c, 404) => result[c].err = NotFoundError

C1_Witness ==
    \E c \in Callers :
        /\ Done(c) /\ GotStatus(c, 404)
        /\ call[c].op = "GetUserOtp"
        /\ net[c].body = MalformedDoc
        /\ result[c].err = NotFoundError

\* C2: status 400 with body {"problem": p} gives BadRequest with Problem p,
\* and status 409 with that body gives Conflict with Problem p.
C2_BadRequestAndConflict ==
    \A c \in Callers :
        Done(c) /\ GotBody(c) /\ ProblemOnly(net[c].body) =>
            /\ net[c].status = 400 =>
                  result[c].err = BadRequestError(net[c].body.fields["problem"].v)
            /\ net[c].status = 409 =>
                  result[c].err = ConflictError(net[c].body.fields["problem"].v)

C2_Witness ==
    \E c \in Callers :
        /\ Done(c) /\ GotStatus(c, 409)
        /\ call[c].op = "CreateUserOtp"
        /\ net[c].body = Obj("problem" :> Str("x"))
        /\ result[c].err = [kind |-> "ConflictError", Problem |-> "x"]

\* C3: every status outside [200,299] other than 400, 404 and 409, with body
\* {"problem": p}, gives Unknown with Problem p.
C3_UnknownOnOtherStatus ==
    \A c \in Callers :
        /\ Done(c) /\ GotBody(c) /\ ProblemOnly(net[c].body)
        /\ net[c].status < 200 \/ net[c].status > 299
        /\ net[c].status \notin {400, 404, 409}
        => result[c].err = UnknownError(net[c].body.fields["problem"].v)

C3_Witness ==
    \E c \in Callers :
        /\ Done(c) /\ GotStatus(c, 101)
        /\ call[c].op = "GetUserOtp"
        /\ net[c].body = Obj("problem" :> Str("x"))
        /\ result[c].err = [kind |-> "UnknownError", Problem |-> "x"]

\* a JSON object whose fields have the types the operation's success type
\* declares
WellFormedFor(op, b) ==
    /\ b.kind = "object"
    /\ \A k \in DOMAIN b.fields :
          /\ (k \in {"secret", "auth_url"} /\ op \in {"GetUserOtp", "CreateUserOtp"})
                => b.fields[k].t = "string"
          /\ (k \in {"verified", "enabled"} /\ op = "GetUserOtp") => b.fields[k].t = "bool"

JsonString(b, k) == IF k \in DOMAIN b.fields THEN b.fields[k].v ELSE ""
JsonBool(b, k) == IF k \in DOMAIN b.fields THEN b.fields[k].v = "true" ELSE FALSE

ValueMatchesJson(op, val, b) ==
    /\ op \in {"GetUserOtp", "CreateUserOtp"} =>
          /\ val.Secret = JsonString(b, "secret")
          /\ val.AuthUrl = JsonString(b, "auth_url")
    /\ op = "GetUserOtp" =>
          /\ val.Verified = JsonBool(b, "verified")
          /\ val.Enabled = JsonBool(b, "enabled")

SuccessCase(c) ==
    /\ Done(c) /\ GotBody(c)
    /\ net[c].status >= 200 /\ net[c].status <= 299
    /\ WellFormedFor(call[c].op, net[c].body)

\* C4 as claimed: for every status in [200,299], 204 included, and a
\* well-formed body, the operation returns no error, and GetUserOtp and
\* CreateUserOtp return the field values of the response JSON.
C4_SuccessReturnsJson ==
    \A c \in Callers :
        SuccessCase(c) =>
            /\ result[c].err = NilErr
            /\ ValueMatchesJson(call[c].op, result[c].val, net[c].body)

\* C4 as amended: the same, but CreateUserOtp at status 204 returns no error
\* and the zero value, the body left undecoded.
C4_SuccessReturnsJsonBut204 ==
    \A c \in Callers :
        SuccessCase(c) =>
            /\ result[c].err = NilErr
            /\ IF call[c].op = "CreateUserOtp" /\ net[c].status = 204
               THEN result[c].val = [Secret |-> "", AuthUrl |-> ""]
               ELSE ValueMatchesJson(call[c].op, result[c].val, net[c].body)

C4_Witness ==
    \E c \in Callers :
        /\ SuccessCase(c) /\ net[c].status = 204
        /\ call[c].op = "GetUserOtp"
        /\ {"secret", "auth_url", "verified", "enabled"} \subseteq DOMAIN net[c].body.fields
        /\ result[c].val = [Verified |-> TRUE, Enabled |-> FALSE,
                            Secret |-> "JBSWY3DP", AuthUrl |-> "otpauth://a"]

\* C5: every request an operation puts on the network carries X-Secret with
\* the client's secret, and nothing else under that name, and User-Agent
\* otp-service-client-go.
C5_SecretAndUserAgent ==
    \A c \in Callers :
        call[c].op \in Ops =>
            \A i \in 1..Len(wire[c]) :
                /\ "X-Secret" \in DOMAIN wire[c][i].Header
                /\ wire[c][i].Header["X-Secret"] = <<oc.Secret>>
                /\ "User-Agent" \in DOMAIN wire[c][i].Header
                /\ HeaderGet(wire[c][i].Header, "User-Agent") = "otp-service-client-go"

C5_Witness ==
    \E c \in Callers :
        /\ call[c].op = "VerifyOtp"
        /\ Len(wire[c]) = 1
        /\ oc.Secret = "hunter2"
        /\ wire[c][1].Header["X-Secret"] = <<"hunter2">>

ExpectedVerb(op) == IF op = "GetUserOtp" THEN "GET" ELSE IF op = "DeleteUserOtp" THEN "DELETE" ELSE "POST"

ExpectedPath(op, id) ==
    CASE op \in {"GetUserOtp", "CreateUserOtp", "DeleteUserOtp"} -> "/users/" \o id \o "/otp"
      [] op = "DisableUserOtp" -> "/users/" \o id \o "/otp/disable"
      [] op = "VerifyOtp" -> "/otp/verify"
      [] op = "ValidateOtp" -> "/otp/validate"

ExpectedBody(op, userId, token) ==
    IF op \in TokenOps
    THEN [kind |-> "object",
          fields |-> [k \in {"user_id", "token"} |->
                        IF k = "user_id" THEN [t |-> "number", v |-> Itoa(userId)]
                        ELSE [t |-> "string", v |-> token]]]
    ELSE EmptyDoc

\* C6: each operation dispatches the verb, URL and body of the operations
\* table, and VerifyOtp returns no error on a 204 response.
C6_OperationsTable ==
    \A c \in Callers :
        call[c].op \in Ops =>
            /\ \A i \in 1..Len(wire[c]) :
                  /\ wire[c][i].Method = ExpectedVerb(call[c].op)
                  /\ wire[c][i].Url = oc.BaseUrl \o ExpectedPath(call[c].op, Itoa(call[c].userId))
                  /\ call[c].userId = 42 =>
                        wire[c][i].Url = oc.BaseUrl \o ExpectedPath(call[c].op, "42")
                  /\ call[c].userId = -3 =>
                        wire[c][i].Url = oc.BaseUrl \o ExpectedPath(call[c].op, "-3")
                  /\ wire[c][i].Query = EmptyMap
                  /\ wire[c][i].Body = ExpectedBody(call[c].op, call[c].userId, call[c].token)
            /\ (Done(c) /\ call[c].op = "VerifyOtp" /\ GotStatus(c, 204)) => result[c].err = NilErr

C6_Witness ==
    \E c \in Callers :
        /\ Done(c) /\ GotStatus(c, 204)
        /\ call[c] = [op |-> "VerifyOtp", userId |-> 42, token |-> "123456"]
        /\ wire[c] = << [Method |-> "POST",
                         Url |-> "http://otp.local/otp/verify",
                         Query |-> EmptyMap,
                         Header |-> wire[c][1].Header,
                         Body |-> Obj(("user_id" :> Num("42")) @@ ("token" :> Str("123456")))] >>
        /\ result[c].err = NilErr

\* the request a call dispatches, and the result it returns, when it runs
\* with no other call in progress
SoloRequest(ocv, cl) ==
    [Method |-> ExpectedVerb(cl.op),
     Url |-> ocv.BaseUrl \o ExpectedPath(cl.op, Itoa(cl.userId)),
     Query |-> EmptyMap,
     Header |-> ("X-Secret" :> <<ocv.Secret>>) @@ ("User-Agent" :> <<UserAgent>>),
     Body |-> ExpectedBody(cl.op, cl.userId, cl.token)]

SoloResult(cl, o) ==
    wrapperReturn(cl.op, readResponse(TransportOf(cl.op), ResponseType(cl.op), o))

\* C7: with several callers sharing one client, no call writes the client,
\* no two calls share a request or header map, and each call dispatches the
\* request and returns the result it would have alone.
C7_CallsIndependent ==
    /\ oc = ConcClient
    /\ \A c \in Callers :
          pc[c] # "idle" =>
              /\ \A d \in Callers \ {c} :
                    (pc[d] # "idle" /\ req[c].Headers # NilMap) => req[d].Headers # req[c].Headers
              /\ pc[c] # "prepare" =>
                    /\ req[c].Headers \in DOMAIN heap
                    /\ heap[req[c].Headers] = ("X-Secret" :> oc.Secret)
              /\ pc[c] \in {"prepare", "transport"} => wire[c] = << >>
              /\ pc[c] \in {"awaiting", "returned", "done"} =>
                    wire[c] = << SoloRequest(ConcClient, call[c]) >>
              /\ pc[c] = "done" => result[c] = SoloResult(call[c], net[c])

C7_Witness ==
    \E c, d \in Callers :
        /\ c # d
        /\ pc[c] = "awaiting" /\ call[c].op = "GetUserOtp"
        /\ pc[d] = "done" /\ call[d].op = "VerifyOtp"
        /\ result[d].err = BadRequestError("x")
        /\ req[c].Headers # req[d].Headers

RequestBuilt(c) == tr[c].err \notin {UrlError, MarshalError}

\* C8 as claimed: every invocation of a transport function makes exactly one
\* network call, on every path.
C8_ExactlyOneCall ==
    \A c \in Callers : TransportReturned(c) => Len(wire[c]) = 1

\* C8 as amended: never more than one network call; exactly one when the
\* request could be built, and none when building it failed.
C8_OneCallUnlessNotBuilt ==
    \A c \in Callers :
        /\ Len(wire[c]) <= 1
        /\ TransportReturned(c) => (Len(wire[c]) = 1 <=> RequestBuilt(c))
        /\ pc[c] = "awaiting" => Len(wire[c]) = 1

C8_Witness ==
    \E c \in Callers :
        /\ TransportReturned(c)
        /\ call[c].op = "PostWithBody"
        /\ net[c].kind = "error"
        /\ tr[c].err = NetError
        /\ Len(wire[c]) = 1

\* C9 as claimed: once Do has returned a response, the body stream is read
\* to its end and closed before the transport function returns.
C9_ReadToEndAndClosed ==
    \A c \in Callers :
        (TransportReturned(c) /\ net[c].kind = "response") =>
            stream[c].read = "eof" /\ stream[c].closed

\* C9 as amended: the stream is closed on every exit path, and read to its
\* end on every exit path but the read failure, where reading stopped at
\* the error.
C9_ClosedAndReadUnlessReadFails ==
    \A c \in Callers :
        (TransportReturned(c) /\ net[c].kind = "response") =>
            /\ stream[c].closed
            /\ ~net[c].readErr => stream[c].read = "eof"
            /\ net[c].readErr => stream[c].read = "failed" /\ tr[c].err = ReadError

C9_Witness ==
    \E c \in Callers :
        /\ TransportReturned(c) /\ net[c].kind = "response"
        /\ net[c].readErr
        /\ call[c].op = "DisableUserOtp"
        /\ stream[c].closed

\* C10: GetUserOtp and CreateUserOtp, on a status outside [200,299] other
\* than 404 and a body that is a valid error payload, return BadRequest,
\* Conflict or Unknown, never a decode error of the success type.
C10_ErrorStatusSkipsSuccessDecode ==
    \A c \in Callers :
        /\ Done(c) /\ GotBody(c)
        /\ call[c].op \in {"GetUserOtp", "CreateUserOtp"}
        /\ net[c].status < 200 \/ net[c].status > 299
        /\ net[c].status # 404
        /\ net[c].body.kind = "object"
        /\ "problem" \in DOMAIN net[c].body.fields
        /\ net[c].body.fields["problem"].t = "string"
        => /\ result[c].err.kind \in {"BadRequestError", "ConflictError", "UnknownError"}
           /\ result[c].err.Problem = net[c].body.fields["problem"].v

====
